---- MODULE Spec2Model ----
(***************************************************************************)
(* The Drop lifecycle and claim subsystem of the upload API                *)
(* (src/src/handlers/drops.rs, src/src/db.rs, src/src/models.rs,           *)
(* src/src/main.rs) as a state machine.                                    *)
(*                                                                         *)
(* Every handler is a process whose steps are its awaited statements: one  *)
(* SQL statement or one filesystem call per step, so that concurrent       *)
(* requests interleave exactly where the code can be suspended.            *)
(* Option<T> values (NULL columns, fetch_optional results) are modelled as *)
(* sets with at most one element: {} is None / NULL, {x} is Some(x).       *)
(***************************************************************************)
EXTENDS Integers, Sequences, FiniteSets, TLC

\* ------------------------------------------------------------------ bounds
\* Clock values are 0..MaxTime (epoch seconds, scaled).
MaxTime == 2
\* drop ids are 1..MaxDrops, handed out in order (generate_drop_id is fresh).
MaxDrops == 2
\* user ids are 1..MaxUsers.
MaxUsers == 2
\* max_claims of a created drop ranges over 0..MaxCap.
MaxCap == 2
\* At most MaxReq claim_drop requests are in progress at a time.
MaxReq == 2
\* In the specification of the whole subsystem at most MaxInProgress requests
\* are in progress at a time.
MaxInProgress == 2

DropIds == 1..MaxDrops
UserIds == 1..MaxUsers
ReqIds == 1..MaxReq
Times == 0..MaxTime

\* ------------------------------------------------------- program constants
SCHEDULED == 0
ACTIVE == 1
ENDED == 2
PURGED == 3

\* The vendors table as the drop subsystem sees it: stable_id -> is_alive.
\* "v0" is a delisted vendor; any other id is unknown.
vendors == [v1 |-> 1, v2 |-> 1, v0 |-> 0]

None == {}
Some(x) == {x}
Get(o) == CHOOSE x \in o : TRUE

\* compute_sha256: injective on contents.
compute_sha256(data) == <<"sha256", data>>

VARIABLES
    now,          \* the wall clock, chrono::Utc::now().timestamp()
    drops,        \* table drops: drop_id -> row, for the ids inserted
    drop_claims,  \* table drop_claims: a set of rows
    files,        \* base_data_dir/drops/<drop_id>: "absent", "empty" or the audio
    creq,         \* the create_drop request in progress
    reqs,         \* the claim_drop requests in progress
    lreq,         \* the list_drops request in progress
    greq,         \* the get_drop request in progress
    dreq,         \* the download_drop request in progress
    bend,         \* the batch_end_drops request in progress
    bpur,         \* the batch_purge_drops request in progress
    job           \* the background job of main

vars == <<now, drops, drop_claims, files, creq, reqs, lreq, greq, dreq, bend,
          bpur, job>>

\* The processes other than the one taking a step.
queries == <<lreq, greq, dreq>>
admin == <<bend, bpur, job>>

\* ------------------------------------------------------------- responses
Ok200 == [code |-> 200, error |-> ""]
Err(code, msg) == [code |-> code, error |-> msg]

IdleCreate ==
    [pc |-> "idle", drop_id |-> 0, now |-> 0, present |-> TRUE, vendor |-> "",
     start_at |-> None, end_at |-> 0, max_claims |-> 0, audio |-> "",
     resp |-> Ok200]

IdleReq ==
    [pc |-> "idle", drop_id |-> 0, user_id |-> 0, now |-> 0, drop |-> None,
     resp |-> Ok200]

IdleList == [pc |-> "idle", vendor |-> "", status |-> None, now |-> 0,
             drops |-> << >>]

IdleGet == [pc |-> "idle", drop_id |-> 0, drop |-> None, resp |-> Ok200]

IdleDownload == [pc |-> "idle", drop_id |-> 0, token |-> None, resp |-> Ok200]

IdleBatch == [pc |-> "idle", vendor |-> "", now |-> 0, todo |-> << >>,
              results |-> << >>]

IdleJob == [pc |-> "sleep", now |-> 0, todo |-> {}, drop_id |-> 0]

Init ==
    /\ now = 0
    /\ drops = << >>
    /\ drop_claims = {}
    /\ files = [d \in DropIds |-> "absent"]
    /\ creq = IdleCreate
    /\ reqs = [r \in ReqIds |-> IdleReq]
    /\ lreq = IdleList
    /\ greq = IdleGet
    /\ dreq = IdleDownload
    /\ bend = IdleBatch
    /\ bpur = IdleBatch
    /\ job = IdleJob

\* ------------------------------------------------------------------ clock
Tick ==
    /\ now < MaxTime
    /\ now' = now + 1
    /\ UNCHANGED <<drops, drop_claims, files, creq, reqs, queries, admin>>

\* ------------------------------------------------------------ create_drop
\* The ids that some create_drop has left a trace of.
UsedIds == DOMAIN drops \cup {d \in DropIds : files[d] # "absent"}

\* Lines 158-276: now and drop_id are taken, the multipart form is read, the
\* required fields and the vendor are checked.  `id` is what generate_drop_id
\* returns, an id not seen before (the lowest one, ids being interchangeable);
\* `present` says whether all six required fields came with the form.
\* A faulty variant of ValidVendor: is_alive is not looked at.
ValidVendorAnyKnown(vendor) == vendor \in DOMAIN vendors

\* Lines 260-276: SELECT 1 FROM vendors WHERE stable_id = ? AND is_alive = 1.
ValidVendor(vendor) == vendor \in DOMAIN vendors /\ vendors[vendor] = 1

create_drop_begin(id, present, vendor, start_at, end_at, max_claims, audio) ==
    /\ creq.pc = "idle"
    /\ id \in DropIds \ UsedIds
    /\ \A e \in DropIds \ UsedIds : id <= e
    /\ LET form == [IdleCreate EXCEPT !.drop_id = id, !.now = now,
                                      !.present = present, !.vendor = vendor,
                                      !.start_at = start_at, !.end_at = end_at,
                                      !.max_claims = max_claims, !.audio = audio]
       IN  creq' = IF ~present
                   THEN [form EXCEPT !.pc = "done",
                                     !.resp = Err(400, "field is required")]
                   ELSE IF ~ValidVendor(vendor)
                   THEN [form EXCEPT !.pc = "done",
                                     !.resp = Err(400, "Vendor not found")]
                   ELSE [form EXCEPT !.pc = "mkdir"]
    /\ UNCHANGED <<now, drops, drop_claims, files, reqs, queries, admin>>

\* Lines 278-284: fs::create_dir_all.
create_drop_mkdir ==
    /\ creq.pc = "mkdir"
    /\ files' = [files EXCEPT ![creq.drop_id] = "empty"]
    /\ creq' = [creq EXCEPT !.pc = "audio"]
    /\ UNCHANGED <<now, drops, drop_claims, reqs, queries, admin>>

\* Lines 286-332: the audio file (and the optional cover) is written.
create_drop_write ==
    /\ creq.pc = "audio"
    /\ files' = [files EXCEPT ![creq.drop_id] = creq.audio]
    /\ creq' = [creq EXCEPT !.pc = "insert"]
    /\ UNCHANGED <<now, drops, drop_claims, reqs, queries, admin>>

\* A faulty variant of InitialStatus: a drop created at its start time is
\* SCHEDULED (a strict comparison).
InitialStatusStrict(t, start_at) ==
    IF t > start_at THEN ACTIVE ELSE SCHEDULED

\* Lines 334-336: the default of start_at and the initial status.
InitialStatus(t, start_at) ==
    IF t >= start_at THEN ACTIVE ELSE SCHEDULED

NewDrop(c) ==
    LET start_at == IF c.start_at = None THEN c.now ELSE Get(c.start_at)
    IN  [vendor_stable_id |-> c.vendor,
         audio_sha256 |-> compute_sha256(c.audio),
         start_at |-> start_at,
         end_at |-> c.end_at,
         max_claims |-> c.max_claims,
         claimed_count |-> 0,
         status |-> InitialStatus(c.now, start_at),
         updated_at |-> c.now,
         ended_at |-> None,
         purged_at |-> None]

\* Lines 338-387: INSERT INTO drops.
create_drop_insert ==
    /\ creq.pc = "insert"
    /\ drops' = [d \in DOMAIN drops \cup {creq.drop_id} |->
                    IF d = creq.drop_id THEN NewDrop(creq) ELSE drops[d]]
    /\ creq' = [IdleCreate EXCEPT !.pc = "done", !.drop_id = creq.drop_id]
    /\ UNCHANGED <<now, drop_claims, files, reqs, queries, admin>>

\* A filesystem or store error at one of the steps: the handler returns 500
\* with `?` and undoes nothing.
create_drop_error ==
    /\ creq.pc \in {"mkdir", "audio", "insert"}
    /\ creq' = [IdleCreate EXCEPT !.pc = "done", !.drop_id = creq.drop_id,
                                  !.resp = Err(500, "create failed")]
    /\ UNCHANGED <<now, drops, drop_claims, files, reqs, queries, admin>>

\* The response has been sent; the request is over.
create_drop_return ==
    /\ creq.pc = "done"
    /\ creq' = IdleCreate
    /\ UNCHANGED <<now, drops, drop_claims, files, reqs, queries, admin>>

\* ------------------------------------------------------------- claim_drop
\* Line 395: the request takes its timestamp.  The lowest free request slot
\* is used (the slots are interchangeable).
claim_drop_begin(r, d, u) ==
    /\ reqs[r].pc = "idle"
    /\ \A s \in ReqIds : s < r => reqs[s].pc # "idle"
    /\ reqs' = [reqs EXCEPT ![r] = [IdleReq EXCEPT !.pc = "read", !.drop_id = d,
                                      !.user_id = u, !.now = now]]
    /\ UNCHANGED <<now, drops, drop_claims, files, creq, queries, admin>>

\* A faulty variant of CheckDrop: the capacity is checked before the window.
CheckDropCapacityFirst(drop, t) ==
    IF drop = None THEN Err(404, "Drop not found")
    ELSE LET d == Get(drop) IN
         IF d.status = ENDED \/ d.status = PURGED
         THEN Err(400, "Drop has ended")
         ELSE IF d.claimed_count >= d.max_claims
         THEN Err(400, "No more claims available")
         ELSE IF t < d.start_at THEN Err(400, "Drop has not started yet")
         ELSE IF t >= d.end_at THEN Err(400, "Drop has expired")
         ELSE Ok200

\* A faulty variant of CheckDrop: the capacity is not checked on the row read
\* (it is left to the later steps).
CheckDropNoCapacity(drop, t) ==
    IF drop = None THEN Err(404, "Drop not found")
    ELSE LET d == Get(drop) IN
         IF d.status = ENDED \/ d.status = PURGED
         THEN Err(400, "Drop has ended")
         ELSE IF t < d.start_at THEN Err(400, "Drop has not started yet")
         ELSE IF t >= d.end_at THEN Err(400, "Drop has expired")
         ELSE Ok200

\* A faulty variant of CheckDrop: the capacity check lets one claim more in.
CheckDropOneMore(drop, t) ==
    IF drop = None THEN Err(404, "Drop not found")
    ELSE LET d == Get(drop) IN
         IF d.status = ENDED \/ d.status = PURGED
         THEN Err(400, "Drop has ended")
         ELSE IF t < d.start_at THEN Err(400, "Drop has not started yet")
         ELSE IF t >= d.end_at THEN Err(400, "Drop has expired")
         ELSE IF d.claimed_count > d.max_claims
         THEN Err(400, "No more claims available")
         ELSE Ok200

\* Lines 406-426: the checks made on the row that was read, in code order.
CheckDrop(drop, t) ==
    IF drop = None THEN Err(404, "Drop not found")
    ELSE LET d == Get(drop) IN
         IF d.status = ENDED \/ d.status = PURGED
         THEN Err(400, "Drop has ended")
         ELSE IF t < d.start_at THEN Err(400, "Drop has not started yet")
         ELSE IF t >= d.end_at THEN Err(400, "Drop has expired")
         ELSE IF d.claimed_count >= d.max_claims
         THEN Err(400, "No more claims available")
         ELSE Ok200

\* The columns of the fetched row that the handler reads.
Fetched(row) ==
    [status |-> row.status, start_at |-> row.start_at, end_at |-> row.end_at,
     max_claims |-> row.max_claims, claimed_count |-> row.claimed_count]

\* A faulty variant of claim_drop_read: the row that was read is touched
\* (updated_at) before the checks.
claim_drop_read_touch(r) ==
    /\ reqs[r].pc = "read"
    /\ LET q == reqs[r]
           drop == IF q.drop_id \in DOMAIN drops
                   THEN Some(Fetched(drops[q.drop_id]))
                   ELSE None
           res == CheckDrop(drop, q.now)
       IN  /\ reqs' = [reqs EXCEPT ![r] =
                          [q EXCEPT !.drop = drop, !.resp = res,
                                    !.pc = IF res = Ok200 THEN "lookup" ELSE "done"]]
           /\ drops' = [d \in DOMAIN drops |->
                           IF d = q.drop_id
                           THEN [drops[d] EXCEPT !.updated_at = q.now]
                           ELSE drops[d]]
    /\ UNCHANGED <<now, drop_claims, files, creq, queries, admin>>

\* Lines 397-426: SELECT * FROM drops WHERE drop_id = ?, then the checks.
claim_drop_read(r) ==
    /\ reqs[r].pc = "read"
    /\ LET q == reqs[r]
           drop == IF q.drop_id \in DOMAIN drops
                   THEN Some(Fetched(drops[q.drop_id]))
                   ELSE None
           res == CheckDrop(drop, q.now)
       IN  reqs' = [reqs EXCEPT ![r] =
                       [q EXCEPT !.drop = drop, !.resp = res,
                                 !.pc = IF res = Ok200 THEN "lookup" ELSE "done"]]
    /\ UNCHANGED <<now, drops, drop_claims, files, creq, queries, admin>>

\* Lines 428-442: SELECT * FROM drop_claims WHERE drop_id = ? AND user_id = ?.
ExistingClaim(d, u) ==
    {c \in drop_claims : c.drop_id = d /\ c.user_id = u}

claim_drop_lookup(r) ==
    /\ reqs[r].pc = "lookup"
    /\ LET q == reqs[r] IN
       IF ExistingClaim(q.drop_id, q.user_id) # {}
       THEN reqs' = [reqs EXCEPT ![r] =
                        [q EXCEPT !.pc = "done",
                                  !.resp = Err(400, "Already claimed")]]
       ELSE reqs' = [reqs EXCEPT ![r] = [q EXCEPT !.pc = "insert"]]
    /\ UNCHANGED <<now, drops, drop_claims, files, creq, queries, admin>>

\* A faulty variant of InsertAllowed: the table has no UNIQUE (drop_id, user_id).
InsertAllowedNoUnique(row) ==
    /\ \A c \in drop_claims : c.claim_id # row.claim_id
    /\ row.drop_id \in DOMAIN drops

\* db.rs 212-224: the constraints of table drop_claims that an INSERT must meet:
\* PRIMARY KEY (claim_id), FOREIGN KEY (drop_id), UNIQUE (drop_id, user_id).
InsertAllowed(row) ==
    /\ \A c \in drop_claims : c.claim_id # row.claim_id
    /\ row.drop_id \in DOMAIN drops
    /\ \A c \in drop_claims :
          ~(c.drop_id = row.drop_id /\ c.user_id = row.user_id)

\* Line 445: Uuid::new_v4() is an id no row has yet.  Rows are never deleted,
\* so the claim ids in use are 1..Cardinality(drop_claims).
NewClaimId == Cardinality(drop_claims) + 1

\* A faulty variant of claim_drop_insert: claimed_at is the time of the INSERT,
\* not the timestamp that was checked.
claim_drop_insert_clock(r) ==
    /\ reqs[r].pc = "insert"
    /\ LET q == reqs[r]
           row == [claim_id |-> NewClaimId, drop_id |-> q.drop_id,
                   user_id |-> q.user_id, claimed_at |-> now]
       IN  IF InsertAllowed(row)
           THEN /\ drop_claims' = drop_claims \cup {row}
                /\ reqs' = [reqs EXCEPT ![r] = [q EXCEPT !.pc = "increment"]]
           ELSE /\ drop_claims' = drop_claims
                /\ reqs' = [reqs EXCEPT ![r] =
                               [q EXCEPT !.pc = "done",
                                         !.resp = Err(500, "DB error")]]
    /\ UNCHANGED <<now, drops, files, creq, queries, admin>>

\* Lines 444-458: INSERT INTO drop_claims; a violated constraint is a DB error
\* and the handler returns 500.
claim_drop_insert(r) ==
    /\ reqs[r].pc = "insert"
    /\ LET q == reqs[r]
           row == [claim_id |-> NewClaimId, drop_id |-> q.drop_id,
                   user_id |-> q.user_id, claimed_at |-> q.now]
       IN  IF InsertAllowed(row)
           THEN /\ drop_claims' = drop_claims \cup {row}
                /\ reqs' = [reqs EXCEPT ![r] = [q EXCEPT !.pc = "increment"]]
           ELSE /\ drop_claims' = drop_claims
                /\ reqs' = [reqs EXCEPT ![r] =
                               [q EXCEPT !.pc = "done",
                                         !.resp = Err(500, "DB error")]]
    /\ UNCHANGED <<now, drops, files, creq, queries, admin>>

\* Lines 460-489: UPDATE drops SET claimed_count = claimed_count + 1,
\* updated_at = ? WHERE drop_id = ?, then the 200 response.
Increment(row, t) ==
    [row EXCEPT !.claimed_count = row.claimed_count + 1, !.updated_at = t]

claim_drop_increment(r) ==
    /\ reqs[r].pc = "increment"
    /\ LET q == reqs[r] IN
       /\ drops' = [d \in DOMAIN drops |->
                       IF d = q.drop_id THEN Increment(drops[d], q.now)
                       ELSE drops[d]]
       /\ reqs' = [reqs EXCEPT ![r] = [q EXCEPT !.pc = "done", !.resp = Ok200]]
    /\ UNCHANGED <<now, drop_claims, files, creq, queries, admin>>

\* The store fails (SQLITE_BUSY, I/O) at the INSERT (line 456) or at the
\* UPDATE (line 466): the handler returns 500 and undoes nothing.
claim_drop_store_error(r) ==
    /\ reqs[r].pc \in {"insert", "increment"}
    /\ reqs' = [reqs EXCEPT ![r] =
                   [reqs[r] EXCEPT !.pc = "done",
                                   !.resp = Err(500, "DB error: store")]]
    /\ UNCHANGED <<now, drops, drop_claims, files, creq, queries, admin>>

\* The response has been sent; the request is over.
claim_drop_return(r) ==
    /\ reqs[r].pc = "done"
    /\ reqs' = [reqs EXCEPT ![r] = IdleReq]
    /\ UNCHANGED <<now, drops, drop_claims, files, creq, queries, admin>>

\* ------------------------------------------------------------- list_drops
\* An UPDATE that matches one row: it is replaced.
UpdateOne(id, row) == [d \in DOMAIN drops |-> IF d = id THEN row ELSE drops[d]]

\* A faulty variant of Expirable: a drop is not matched at its end_at yet.
ExpirableStrict(row, t) ==
    row.end_at < t /\ row.status \in {SCHEDULED, ACTIVE}

\* WHERE end_at <= ? AND status IN (SCHEDULED, ACTIVE).
Expirable(row, t) ==
    row.end_at <= t /\ row.status \in {SCHEDULED, ACTIVE}

\* A faulty variant of LazyExpire: the UPDATE also matches the rows that are
\* ENDED.
LazyExpireAgain(row, t) ==
    IF row.end_at <= t /\ row.status \in {SCHEDULED, ACTIVE, ENDED}
    THEN [row EXCEPT !.status = ENDED, !.ended_at = Some(t)]
    ELSE row

\* A faulty variant of LazyExpire: the drops whose start_at has come are moved
\* to ACTIVE as well.
LazyExpireActivates(row, t) ==
    IF Expirable(row, t)
    THEN [row EXCEPT !.status = ENDED, !.ended_at = Some(t)]
    ELSE IF row.status = SCHEDULED /\ row.start_at <= t
    THEN [row EXCEPT !.status = ACTIVE]
    ELSE row

\* Lines 84-93: SET status = ENDED, ended_at = now.  updated_at is not set.
LazyExpire(row, t) ==
    IF Expirable(row, t)
    THEN [row EXCEPT !.status = ENDED, !.ended_at = Some(t)]
    ELSE row

\* models.rs 491-531: DropResponse::from_drop.
DropResponse(row) ==
    [vendor_stable_id |-> row.vendor_stable_id,
     audio_sha256 |-> row.audio_sha256,
     start_at |-> row.start_at, end_at |-> row.end_at,
     max_claims |-> row.max_claims, claimed_count |-> row.claimed_count,
     remaining_claims |-> row.max_claims - row.claimed_count,
     status |-> row.status, updated_at |-> row.updated_at,
     ended_at |-> row.ended_at]

\* Line 81: the request takes its timestamp.  `status` is the optional filter.
list_drops_begin(vendor, status) ==
    /\ lreq.pc = "idle"
    /\ lreq' = [IdleList EXCEPT !.pc = "expire", !.vendor = vendor,
                                !.status = status, !.now = now]
    /\ UNCHANGED <<now, drops, drop_claims, files, creq, reqs, greq, dreq,
                   admin>>

\* Lines 83-93: the lazy expiry.
list_drops_expire ==
    /\ lreq.pc = "expire"
    /\ drops' = [d \in DOMAIN drops |-> LazyExpire(drops[d], lreq.now)]
    /\ lreq' = [lreq EXCEPT !.pc = "select"]
    /\ UNCHANGED <<now, drop_claims, files, creq, reqs, greq, dreq,
                   admin>>

\* A faulty variant of Listed: with no filter the PURGED rows are returned too.
ListedWithPurged(vendor, status) ==
    {d \in DOMAIN drops :
        /\ drops[d].vendor_stable_id = vendor
        /\ status # None => drops[d].status = Get(status)}

\* Lines 95-111: the rows of the vendor with the status asked for, or, with no
\* filter, those that are not PURGED.
Listed(vendor, status) ==
    {d \in DOMAIN drops :
        /\ drops[d].vendor_stable_id = vendor
        /\ IF status = None THEN drops[d].status # PURGED
           ELSE drops[d].status = Get(status)}

\* Lines 95-127.
list_drops_select ==
    /\ lreq.pc = "select"
    /\ lreq' = [lreq EXCEPT !.pc = "done",
                   !.drops = [d \in Listed(lreq.vendor, lreq.status) |->
                                 DropResponse(drops[d])]]
    /\ UNCHANGED <<now, drops, drop_claims, files, creq, reqs, greq, dreq,
                   admin>>

list_drops_return ==
    /\ lreq.pc = "done"
    /\ lreq' = IdleList
    /\ UNCHANGED <<now, drops, drop_claims, files, creq, reqs, greq, dreq,
                   admin>>

\* --------------------------------------------------------------- get_drop
\* Lines 130-151: SELECT * FROM drops WHERE drop_id = ?; nothing is updated.
get_drop(id) ==
    /\ greq.pc = "idle"
    /\ greq' = IF id \in DOMAIN drops
               THEN [pc |-> "done", drop_id |-> id,
                     drop |-> Some(DropResponse(drops[id])), resp |-> Ok200]
               ELSE [pc |-> "done", drop_id |-> id, drop |-> None,
                     resp |-> Err(404, "Drop not found")]
    /\ UNCHANGED <<now, drops, drop_claims, files, creq, reqs, lreq, dreq,
                   admin>>

get_drop_return ==
    /\ greq.pc = "done"
    /\ greq' = IdleGet
    /\ UNCHANGED <<now, drops, drop_claims, files, creq, reqs, lreq, dreq,
                   admin>>

\* ---------------------------------------------------------- download_drop
\* Lines 497-499: the token of the query string; without one the answer is
\* 401 at once.
download_drop_begin(d, token) ==
    /\ dreq.pc = "idle"
    /\ dreq' = IF token = None
               THEN [IdleDownload EXCEPT !.pc = "done", !.drop_id = d,
                                         !.resp = Err(401, "Token required")]
               ELSE [IdleDownload EXCEPT !.pc = "claim", !.drop_id = d,
                                         !.token = token]
    /\ UNCHANGED <<now, drops, drop_claims, files, creq, reqs, lreq, greq, admin>>

\* Line 503: SELECT * FROM drop_claims WHERE claim_id = ? AND drop_id = ?.
TokenClaim(token, d) ==
    {c \in drop_claims : c.claim_id = token /\ c.drop_id = d}

\* Lines 501-515: no such claim is 401.
download_drop_claim ==
    /\ dreq.pc = "claim"
    /\ dreq' = IF TokenClaim(Get(dreq.token), dreq.drop_id) = {}
               THEN [dreq EXCEPT !.pc = "done",
                                 !.resp = Err(401, "Invalid token")]
               ELSE [dreq EXCEPT !.pc = "drop"]
    /\ UNCHANGED <<now, drops, drop_claims, files, creq, reqs, lreq, greq, admin>>

\* A faulty variant of CheckDownload: a drop that is ENDED or PURGED is refused.
CheckDownloadStatus(drop, t) ==
    IF drop.status \in {ENDED, PURGED} THEN Err(400, "Drop has ended")
    ELSE IF t >= drop.end_at THEN Err(400, "Drop has expired")
    ELSE Ok200

\* Lines 526-530: only end_at is compared with the clock.
CheckDownload(drop, t) ==
    IF t >= drop.end_at THEN Err(400, "Drop has expired") ELSE Ok200

\* Lines 517-530: SELECT * FROM drops WHERE drop_id = ? with fetch_one (no row
\* is a store error, 500), then the clock is read and compared with end_at.
download_drop_check ==
    /\ dreq.pc = "drop"
    /\ dreq' = IF dreq.drop_id \notin DOMAIN drops
               THEN [dreq EXCEPT !.pc = "done", !.resp = Err(500, "DB error")]
               ELSE LET res == CheckDownload(drops[dreq.drop_id], now) IN
                    IF res = Ok200 THEN [dreq EXCEPT !.pc = "read"]
                    ELSE [dreq EXCEPT !.pc = "done", !.resp = res]
    /\ UNCHANGED <<now, drops, drop_claims, files, creq, reqs, lreq, greq, admin>>

\* A faulty variant of ReadAudio: a body is served whatever the directory holds.
ReadAudioAlways(file) == [code |-> 200, error |-> "", body |-> file]

\* Lines 532-552: fs::read of the audio file; a missing file is 500, otherwise
\* the bytes are the body of the 200 response.
ReadAudio(file) ==
    IF file \in {"absent", "empty"} THEN Err(500, "File read error")
    ELSE [code |-> 200, error |-> "", body |-> file]

download_drop_read ==
    /\ dreq.pc = "read"
    /\ dreq' = [dreq EXCEPT !.pc = "done", !.resp = ReadAudio(files[dreq.drop_id])]
    /\ UNCHANGED <<now, drops, drop_claims, files, creq, reqs, lreq, greq, admin>>

download_drop_return ==
    /\ dreq.pc = "done"
    /\ dreq' = IdleDownload
    /\ UNCHANGED <<now, drops, drop_claims, files, creq, reqs, lreq, greq, admin>>

\* -------------------------------------------------------- batch_end_drops
\* HashMap::insert: a later result for the same id replaces the earlier one.
Insert(results, id, b) ==
    [d \in DOMAIN results \cup {id} |-> IF d = id THEN b ELSE results[d]]

\* A faulty variant of Endable: the UPDATE has no condition on the status.
EndableAnyStatus(id, vendor) ==
    /\ id \in DOMAIN drops
    /\ drops[id].vendor_stable_id = vendor

\* A faulty variant of Endable: the UPDATE has no condition on the vendor.
EndableAnyVendor(id, vendor) ==
    /\ id \in DOMAIN drops
    /\ drops[id].status \in {SCHEDULED, ACTIVE}

\* WHERE drop_id = ? AND vendor_stable_id = ? AND status IN (SCHEDULED, ACTIVE).
Endable(id, vendor) ==
    /\ id \in DOMAIN drops
    /\ drops[id].vendor_stable_id = vendor
    /\ drops[id].status \in {SCHEDULED, ACTIVE}

\* Line 566: SET status = ENDED, ended_at = now, updated_at = now.
ForceEnd(row, t) ==
    [row EXCEPT !.status = ENDED, !.ended_at = Some(t), !.updated_at = t]

\* Lines 561-562.
batch_end_drops_begin(vendor, ids) ==
    /\ bend.pc = "idle"
    /\ bend' = [IdleBatch EXCEPT !.pc = "loop", !.vendor = vendor, !.now = now,
                                 !.todo = ids]
    /\ UNCHANGED <<now, drops, drop_claims, files, creq, reqs, queries, bpur, job>>

\* Lines 564-579: one turn of the loop.
batch_end_drops_update ==
    /\ bend.pc = "loop"
    /\ bend.todo # << >>
    /\ LET id == Head(bend.todo)
           hit == Endable(id, bend.vendor)
       IN  /\ drops' = IF hit THEN UpdateOne(id, ForceEnd(drops[id], bend.now))
                       ELSE drops
           /\ bend' = [bend EXCEPT !.todo = Tail(bend.todo),
                                   !.results = Insert(bend.results, id, hit)]
    /\ UNCHANGED <<now, drop_claims, files, creq, reqs, queries, bpur, job>>

\* Lines 581-587.
batch_end_drops_return ==
    /\ bend.pc = "loop"
    /\ bend.todo = << >>
    /\ bend' = IdleBatch
    /\ UNCHANGED <<now, drops, drop_claims, files, creq, reqs, queries, bpur, job>>

\* ------------------------------------------------------ batch_purge_drops
\* A faulty variant of ForceEndCoalesce: ended_at is left as it is.
ForceEndKeepsNull(row, t) ==
    [row EXCEPT !.status = ENDED, !.updated_at = t]

\* Line 601: SET status = ENDED, ended_at = COALESCE(ended_at, now),
\* updated_at = now.
ForceEndCoalesce(row, t) ==
    [row EXCEPT !.status = ENDED,
                !.ended_at = IF row.ended_at = None THEN Some(t) ELSE row.ended_at,
                !.updated_at = t]

\* A faulty variant of Purge: the counter of the claims is reset.
PurgeResetsCount(row, t) ==
    [row EXCEPT !.status = PURGED, !.purged_at = Some(t), !.updated_at = t,
                !.claimed_count = 0]

\* A faulty variant of Purge: the status is left as it is.
PurgeKeepsStatus(row, t) ==
    [row EXCEPT !.purged_at = Some(t), !.updated_at = t]

\* A faulty variant of Purge: a row that is PURGED is left as it is.
PurgeOnce(row, t) ==
    IF row.status = PURGED THEN row
    ELSE [row EXCEPT !.status = PURGED, !.purged_at = Some(t), !.updated_at = t]

\* Lines 629 and 700: SET status = PURGED, purged_at = now, updated_at = now
\* WHERE drop_id = ?.
Purge(row, t) ==
    [row EXCEPT !.status = PURGED, !.purged_at = Some(t), !.updated_at = t]

\* Lines 595-596.
batch_purge_drops_begin(vendor, ids) ==
    /\ bpur.pc = "idle"
    /\ bpur' = [IdleBatch EXCEPT !.pc = "end", !.vendor = vendor, !.now = now,
                                 !.todo = ids]
    /\ UNCHANGED <<now, drops, drop_claims, files, creq, reqs, queries, bend, job>>

\* Lines 599-611: the drop is ended first if it is not yet.
batch_purge_drops_end ==
    /\ bpur.pc = "end"
    /\ bpur.todo # << >>
    /\ LET id == Head(bpur.todo) IN
       drops' = IF Endable(id, bpur.vendor)
                THEN UpdateOne(id, ForceEndCoalesce(drops[id], bpur.now))
                ELSE drops
    /\ bpur' = [bpur EXCEPT !.pc = "select"]
    /\ UNCHANGED <<now, drop_claims, files, creq, reqs, queries, bend, job>>

\* Lines 613-622 and 640-642: SELECT * FROM drops WHERE drop_id = ? AND
\* vendor_stable_id = ?.
batch_purge_drops_select ==
    /\ bpur.pc = "select"
    /\ LET id == Head(bpur.todo) IN
       IF id \in DOMAIN drops /\ drops[id].vendor_stable_id = bpur.vendor
       THEN bpur' = [bpur EXCEPT !.pc = "remove"]
       ELSE bpur' = [bpur EXCEPT !.pc = "end", !.todo = Tail(bpur.todo),
                                 !.results = Insert(bpur.results, id, FALSE)]
    /\ UNCHANGED <<now, drops, drop_claims, files, creq, reqs, queries, bend, job>>

\* Lines 623-625: fs::remove_dir_all.
batch_purge_drops_remove ==
    /\ bpur.pc = "remove"
    /\ files' = [files EXCEPT ![Head(bpur.todo)] = "absent"]
    /\ bpur' = [bpur EXCEPT !.pc = "update"]
    /\ UNCHANGED <<now, drops, drop_claims, creq, reqs, queries, bend, job>>

\* A faulty variant of batch_purge_drops_update: the claims of the drop are
\* deleted with it.
batch_purge_drops_update_cascade ==
    /\ bpur.pc = "update"
    /\ LET id == Head(bpur.todo) IN
       /\ drops' = UpdateOne(id, Purge(drops[id], bpur.now))
       /\ drop_claims' = {c \in drop_claims : c.drop_id # id}
       /\ bpur' = [bpur EXCEPT !.pc = "end", !.todo = Tail(bpur.todo),
                               !.results = Insert(bpur.results, id, TRUE)]
    /\ UNCHANGED <<now, files, creq, reqs, queries, bend, job>>

\* Lines 627-639: the row is marked PURGED, whatever its status.
batch_purge_drops_update ==
    /\ bpur.pc = "update"
    /\ LET id == Head(bpur.todo) IN
       /\ drops' = UpdateOne(id, Purge(drops[id], bpur.now))
       /\ bpur' = [bpur EXCEPT !.pc = "end", !.todo = Tail(bpur.todo),
                               !.results = Insert(bpur.results, id, TRUE)]
    /\ UNCHANGED <<now, drop_claims, files, creq, reqs, queries, bend, job>>

\* Lines 645-649.
batch_purge_drops_return ==
    /\ bpur.pc = "end"
    /\ bpur.todo = << >>
    /\ bpur' = IdleBatch
    /\ UNCHANGED <<now, drops, drop_claims, files, creq, reqs, queries, bend, job>>

\* --------------------------------------------------------- background job
\* main.rs 451: the grace period the job passes to purge_ended_drops, 604800 s
\* in the source, here in units of the model's clock.
GraceSeconds == 1

\* A faulty variant of Expire: the UPDATE matches no row.
ExpireNothing(row, t) == row

\* A faulty variant of Expire: the UPDATE also matches the rows that are ENDED.
ExpireAgain(row, t) ==
    IF row.end_at <= t /\ row.status \in {SCHEDULED, ACTIVE, ENDED}
    THEN ForceEnd(row, t)
    ELSE row

\* Line 660: SET status = ENDED, ended_at = now, updated_at = now.
Expire(row, t) ==
    IF Expirable(row, t) THEN ForceEnd(row, t) ELSE row

\* main.rs 441-447 and drops.rs 656-676: the timer fires and expire_drops runs.
expire_drops ==
    /\ job.pc = "sleep"
    /\ drops' = [d \in DOMAIN drops |-> Expire(drops[d], now)]
    /\ job' = [job EXCEPT !.pc = "purge"]
    /\ UNCHANGED <<now, drop_claims, files, creq, reqs, queries, bend, bpur>>

\* A faulty variant of Purgeable: ended_at is not compared with the cutoff.
PurgeableNoGrace(row, cutoff) ==
    row.status = ENDED /\ row.ended_at # None

\* WHERE status = ENDED AND ended_at IS NOT NULL AND ended_at <= cutoff.
Purgeable(row, cutoff) ==
    row.status = ENDED /\ \E t \in row.ended_at : t <= cutoff

\* Lines 679-690: the drops to purge are selected.
purge_ended_drops_select(grace_seconds) ==
    /\ job.pc = "purge"
    /\ LET due == {d \in DOMAIN drops : Purgeable(drops[d], now - grace_seconds)}
       IN  job' = IF due = {} THEN IdleJob
                  ELSE [job EXCEPT !.pc = "remove", !.now = now, !.todo = due]
    /\ UNCHANGED <<now, drops, drop_claims, files, creq, reqs, queries, bend, bpur>>

\* Lines 693-696: fs::remove_dir_all for the next drop of the result set (its
\* order is the store's choice).
purge_ended_drops_remove(id) ==
    /\ job.pc = "remove"
    /\ id \in job.todo
    /\ files' = [files EXCEPT ![id] = "absent"]
    /\ job' = [job EXCEPT !.pc = "update", !.drop_id = id]
    /\ UNCHANGED <<now, drops, drop_claims, creq, reqs, queries, bend, bpur>>

\* Lines 698-711: the row is marked PURGED.
purge_ended_drops_update ==
    /\ job.pc = "update"
    /\ drops' = UpdateOne(job.drop_id, Purge(drops[job.drop_id], job.now))
    /\ LET rest == job.todo \ {job.drop_id} IN
       job' = IF rest = {} THEN IdleJob
              ELSE [job EXCEPT !.pc = "remove", !.todo = rest, !.drop_id = 0]
    /\ UNCHANGED <<now, drop_claims, files, creq, reqs, queries, bend, bpur>>

\* drops.rs 696: fs::remove_dir_all fails (I/O error); `let _ =` drops the
\* error and the sweep goes on to the UPDATE of the same drop.
purge_ended_drops_remove_error(id) ==
    /\ job.pc = "remove"
    /\ id \in job.todo
    /\ job' = [job EXCEPT !.pc = "update", !.drop_id = id]
    /\ UNCHANGED <<now, drops, drop_claims, files, creq, reqs, queries, bend, bpur>>

\* drops.rs 707: the UPDATE fails (store error); `?` returns the error from
\* purge_ended_drops, the job logs it (main.rs 452-454) and sleeps until the
\* next tick of its timer.
purge_ended_drops_update_error ==
    /\ job.pc = "update"
    /\ job' = IdleJob
    /\ UNCHANGED <<now, drops, drop_claims, files, creq, reqs, queries, bend, bpur>>

\* ----------------------------------------------------------- specification
\* The number of requests in progress, the sweep of the job counting as one.
InProgress ==
    Cardinality({r \in ReqIds : reqs[r].pc # "idle"})
    + (IF creq.pc # "idle" THEN 1 ELSE 0) + (IF lreq.pc # "idle" THEN 1 ELSE 0)
    + (IF greq.pc # "idle" THEN 1 ELSE 0) + (IF dreq.pc # "idle" THEN 1 ELSE 0)
    + (IF bend.pc # "idle" THEN 1 ELSE 0)
    + (IF bpur.pc # "idle" THEN 1 ELSE 0) + (IF job.pc # "sleep" THEN 1 ELSE 0)

\* Each group of steps below is one handler; its first step, which admits a
\* new request, is taken while fewer than `k` requests are in progress, with
\* inputs from the sets given.
CreateSteps(k, ids, presents, vs, starts, ends, caps, audios) ==
    \/ \E id \in ids, present \in presents, vendor \in vs, start_at \in starts,
          end_at \in ends, max_claims \in caps, audio \in audios :
          /\ create_drop_begin(id, present, vendor, start_at, end_at, max_claims,
                               audio)
          /\ InProgress < k
    \/ create_drop_mkdir
    \/ create_drop_write
    \/ create_drop_insert
    \/ create_drop_error
    \/ create_drop_return

ClaimSteps(k, rs, ids, us) ==
    \/ \E r \in rs, d \in ids, u \in us :
          claim_drop_begin(r, d, u) /\ InProgress < k
    \/ \E r \in rs : claim_drop_read(r)
    \/ \E r \in rs : claim_drop_lookup(r)
    \/ \E r \in rs : claim_drop_insert(r)
    \/ \E r \in rs : claim_drop_increment(r)
    \/ \E r \in rs : claim_drop_store_error(r)
    \/ \E r \in rs : claim_drop_return(r)

JobSteps(k) ==
    \/ expire_drops /\ InProgress < k
    \/ purge_ended_drops_select(GraceSeconds)
    \/ \E id \in DropIds : purge_ended_drops_remove(id)
    \/ purge_ended_drops_update

JobFaultSteps ==
    \/ \E id \in DropIds : purge_ended_drops_remove_error(id)
    \/ purge_ended_drops_update_error

DownloadSteps(k, ids, tokens) ==
    \/ \E d \in ids, token \in tokens :
          download_drop_begin(d, token) /\ InProgress < k
    \/ download_drop_claim
    \/ download_drop_check
    \/ download_drop_read
    \/ download_drop_return

ListSteps(k, vs, filters) ==
    \/ \E vendor \in vs, status \in filters :
          list_drops_begin(vendor, status) /\ InProgress < k
    \/ list_drops_expire
    \/ list_drops_select
    \/ list_drops_return

GetSteps(k) ==
    \/ \E id \in DropIds : get_drop(id) /\ InProgress < k
    \/ get_drop_return

BatchEndSteps(k, vs, lists) ==
    \/ \E vendor \in vs, ids \in lists :
          batch_end_drops_begin(vendor, ids) /\ InProgress < k
    \/ batch_end_drops_update
    \/ batch_end_drops_return

BatchPurgeSteps(k, vs, lists) ==
    \/ \E vendor \in vs, ids \in lists :
          batch_purge_drops_begin(vendor, ids) /\ InProgress < k
    \/ batch_purge_drops_end
    \/ batch_purge_drops_select
    \/ batch_purge_drops_remove
    \/ batch_purge_drops_update
    \/ batch_purge_drops_return

\* The claim subsystem: one drop, claimed by MaxReq concurrent requests of
\* MaxUsers users while it is created, and ended and purged by the background
\* job, all of them in progress together.
AllInProgress == MaxReq + 2

NextClaim ==
    \/ Tick
    \/ CreateSteps(AllInProgress, {1}, {TRUE}, {"v1"}, {None, Some(1)},
                   {1, MaxTime}, 1..MaxCap, {"a"})
    \/ ClaimSteps(AllInProgress, ReqIds, {1}, UserIds)
    \/ JobSteps(AllInProgress)

SpecClaim == Init /\ [][NextClaim]_vars

\* The lists of drop ids a batch request carries.
IdLists == {<<d>> : d \in DropIds} \cup {<<1, 2>>, <<1, 1>>}

\* generate_drop_id draws 40 random bits, and a client learns the id of a drop
\* from the responses only: a request names ids of drops that are in the
\* table, or ids that no drop has.  `fresh` are the ids create_drop hands out.
Nameable(lists, fresh) ==
    {l \in lists : \A i \in DOMAIN l : l[i] \in DOMAIN drops \/ l[i] \notin fresh}

\* The whole drop subsystem: every handler and the background job on one drop
\* (the other ids are unknown to the store), at most MaxInProgress requests at
\* a time.
Next ==
    \/ Tick
    \/ CreateSteps(MaxInProgress, {1}, BOOLEAN, {"v1", "v2", "v0"},
                   {None, Some(1)}, {0, 1}, {1}, {"a"})
    \/ ClaimSteps(MaxInProgress, {1}, DropIds, {1})
    \/ JobSteps(MaxInProgress)
    \/ ListSteps(MaxInProgress, {"v1"}, {None, Some(ENDED), Some(PURGED)})
    \/ GetSteps(MaxInProgress)
    \/ BatchEndSteps(MaxInProgress, {"v1"}, Nameable(IdLists, {1}))
    \/ BatchPurgeSteps(MaxInProgress, {"v1"}, Nameable(IdLists, {1}))

Spec == Init /\ [][Next]_vars

\* The sweeps of the background job over MaxDrops drops that are created while
\* it runs.
NextSweep ==
    \/ Tick
    \/ CreateSteps(MaxInProgress, DropIds, {TRUE}, {"v1"}, {None}, 1..MaxTime,
                   {1}, {"a"})
    \/ JobSteps(MaxInProgress)

SpecSweep == Init /\ [][NextSweep]_vars

\* The same with the failures of the filesystem and of the store that
\* purge_ended_drops can meet.
NextFault ==
    \/ NextSweep
    \/ JobFaultSteps

SpecFault == Init /\ [][NextFault]_vars

\* The tokens a download request carries: none, or a claim id.
Tokens == {None} \cup {Some(c) : c \in 1..MaxDrops}

\* Downloads and queries of MaxDrops drops that one user claims, while
\* batch_end_drops and the background job end and purge them.
NextDownload ==
    \/ Tick
    \/ CreateSteps(MaxInProgress, DropIds, {TRUE}, {"v1"}, {None}, {MaxTime},
                   {1}, {"a"})
    \/ ClaimSteps(MaxInProgress, {1}, DropIds, {1})
    \/ DownloadSteps(MaxInProgress, DropIds, Tokens)
    \/ GetSteps(MaxInProgress)
    \/ BatchEndSteps(MaxInProgress, {"v1"}, {<<1>>})
    \/ JobSteps(MaxInProgress)

SpecDownload == Init /\ [][NextDownload]_vars

\* create_drop alone, with forms that lack a required field and with vendors
\* that are delisted ("v0") or unknown ("vx"), and with the failures of the
\* filesystem and of the store.
NextCreate ==
    \/ Tick
    \/ CreateSteps(MaxInProgress, DropIds, BOOLEAN, {"v1", "v0", "vx"}, {None},
                   {MaxTime}, {1}, {"a", "b"})

SpecCreate == Init /\ [][NextCreate]_vars

\* The sweeps under the scheduling of main.rs 439-455: the timer of the job
\* keeps firing and each of its awaits completes, and the clock goes on.
SpecLive ==
    Init /\ [][NextSweep]_vars /\ WF_vars(JobSteps(MaxInProgress)) /\ WF_vars(Tick)

\* list_drops and the background job on one drop that is created SCHEDULED or
\* ACTIVE.
NextList ==
    \/ Tick
    \/ CreateSteps(MaxInProgress, {1}, {TRUE}, {"v1"}, {None, Some(1)},
                   1..MaxTime, {1}, {"a"})
    \/ ListSteps(MaxInProgress, {"v1"}, {None})
    \/ JobSteps(MaxInProgress)

SpecList == Init /\ [][NextList]_vars

\* The administrative batch operations of two vendors on one drop that either
\* of them owns; id 2 is the id of no drop.
NextAdmin ==
    \/ Tick
    \/ CreateSteps(MaxInProgress, {1}, {TRUE}, {"v1", "v2"}, {None, Some(1)},
                   {MaxTime}, {1}, {"a"})
    \/ BatchEndSteps(MaxInProgress, {"v1", "v2"}, Nameable(IdLists, {1}))
    \/ BatchPurgeSteps(MaxInProgress, {"v1", "v2"}, Nameable(IdLists, {1}))

SpecAdmin == Init /\ [][NextAdmin]_vars

\* Every operation of the subsystem, download_drop included, on one drop of
\* capacity 1 that one user claims.
NextAll ==
    \/ Tick
    \/ CreateSteps(MaxInProgress, {1}, {TRUE}, {"v1"}, {None, Some(1)},
                   {MaxTime}, {1}, {"a"})
    \/ ClaimSteps(MaxInProgress, {1}, {1}, {1})
    \/ DownloadSteps(MaxInProgress, {1}, {Some(1)})
    \/ ListSteps(MaxInProgress, {"v1"}, {None})
    \/ GetSteps(MaxInProgress)
    \/ BatchEndSteps(MaxInProgress, {"v1"}, Nameable({<<1>>}, {1}))
    \/ BatchPurgeSteps(MaxInProgress, {"v1"}, Nameable({<<1>>}, {1}))
    \/ JobSteps(MaxInProgress)

SpecAll == Init /\ [][NextAll]_vars

\* The operations that write to table drops, on one drop that is created with
\* its window open.
NextWriters ==
    \/ Tick
    \/ CreateSteps(MaxInProgress, {1}, {TRUE}, {"v1"}, {None}, {MaxTime}, {1},
                   {"a"})
    \/ ClaimSteps(MaxInProgress, {1}, {1}, {1})
    \/ ListSteps(MaxInProgress, {"v1"}, {None})
    \/ BatchEndSteps(MaxInProgress, {"v1"}, Nameable({<<1>>}, {1}))
    \/ BatchPurgeSteps(MaxInProgress, {"v1"}, Nameable({<<1>>}, {1}))
    \/ JobSteps(MaxInProgress)

\* These under the scheduling of main.rs 437-456: the runtime keeps running
\* the tasks that can take a step, the job is a task of its own whose timer
\* fires whatever requests are being served, so that its next step is taken
\* however often the requests hold it off; and the clock goes on.
SpecWritersLive ==
    /\ Init /\ [][NextWriters]_vars
    /\ WF_vars(NextWriters) /\ SF_vars(JobSteps(MaxInProgress)) /\ WF_vars(Tick)

\* Claims by concurrent requests on one drop that create_drop is given any
\* window, closed or empty ones too, and any capacity from -1 to 1, while the
\* background job runs.
NextDegenerate ==
    \/ Tick
    \/ CreateSteps(MaxInProgress, {1}, {TRUE}, {"v1"},
                   {None} \cup {Some(t) : t \in 1..MaxTime}, Times, -1..1, {"a"})
    \/ ClaimSteps(MaxInProgress, ReqIds, {1}, UserIds)
    \/ JobSteps(MaxInProgress)

SpecDegenerate == Init /\ [][NextDegenerate]_vars

\* ------------------------------------------------------------------ claims
\* The messages of the conflicts a claim can be refused for.
NotFound == Err(404, "Drop not found")
HasEnded == Err(400, "Drop has ended")
NotStarted == Err(400, "Drop has not started yet")
HasExpired == Err(400, "Drop has expired")
SoldOut == Err(400, "No more claims available")
AlreadyClaimed == Err(400, "Already claimed")
StoreFault == Err(500, "DB error: store")

\* The requests that have read the drop row, and those that have answered.
HasRead(r) == reqs[r].pc \notin {"idle", "read"}
Answered(r) == reqs[r].pc = "done"
ClaimsOf(d) == {c \in drop_claims : c.drop_id = d}

\* C1: in every reachable state every drop has 0 <= claimed_count <= max_claims,
\* under any interleaving of the steps of concurrent claim_drop requests.
C1_CountWithinCapacity ==
    \A d \in DOMAIN drops :
        0 <= drops[d].claimed_count /\ drops[d].claimed_count <= drops[d].max_claims

\* C2: in every reachable state there is at most one drop_claims row for each
\* pair of drop_id and user_id.
C2_OneClaimPerUser ==
    \A c1, c2 \in drop_claims :
        c1.drop_id = c2.drop_id /\ c1.user_id = c2.user_id => c1 = c2

\* Two requests of one user for one drop have both passed the duplicate lookup;
\* one has inserted its row and the other was refused by the store.
C2_Witness ==
    \E r1, r2 \in ReqIds :
        /\ r1 # r2
        /\ reqs[r1].drop_id = reqs[r2].drop_id
        /\ reqs[r1].user_id = reqs[r2].user_id
        /\ reqs[r1].pc = "increment"
        /\ Answered(r2) /\ reqs[r2].resp = Err(500, "DB error")

\* C3: of the requests of distinct users that run concurrently on a drop with
\* exactly one slot left (each has read claimed_count = max_claims - 1), exactly
\* one succeeds; stated here as: no two of them succeed.
C3_OneSlotOneWinner ==
    \A r1, r2 \in ReqIds :
        /\ r1 # r2
        /\ Answered(r1) /\ Answered(r2)
        /\ reqs[r1].drop_id = reqs[r2].drop_id
        /\ reqs[r1].user_id # reqs[r2].user_id
        /\ \A r \in {r1, r2} : \E row \in reqs[r].drop :
              row.claimed_count = row.max_claims - 1
        => ~(reqs[r1].resp = Ok200 /\ reqs[r2].resp = Ok200)

\* C4: whenever no claim request is in progress, claimed_count of every drop
\* equals the number of its drop_claims rows, whatever the outcome of each
\* request was (success, rejection, store error at the INSERT or the UPDATE).
C4_CountMatchesRows ==
    (\A r \in ReqIds : reqs[r].pc \in {"idle", "done"}) =>
        \A d \in DOMAIN drops :
            drops[d].claimed_count = Cardinality(ClaimsOf(d))

\* C5: claim_drop reports the first precondition that fails, in the order drop
\* exists, status not ENDED or PURGED, now >= start_at, now < end_at,
\* claimed_count < max_claims, no claim of this user yet, each with its own
\* message; a request goes on to the duplicate lookup exactly when the first
\* five hold of the row it read, and start_at is inside the window, end_at not.
C5_FirstFailureWins ==
    \A r \in ReqIds : HasRead(r) =>
        LET q == reqs[r]
            t == q.now
            known == q.drop # None
            row == Get(q.drop)
            open == known /\ row.status \notin {ENDED, PURGED}
            started == open /\ t >= row.start_at
            inside == started /\ t < row.end_at
            free == inside /\ row.claimed_count < row.max_claims
        IN  /\ (q.resp = NotFound) <=> ~known
            /\ (q.resp = HasEnded) <=> (known /\ ~open)
            /\ (q.resp = NotStarted) <=> (open /\ ~started)
            /\ (q.resp = HasExpired) <=> (started /\ ~inside)
            /\ (q.resp = SoldOut) <=> (inside /\ ~free)
            /\ q.pc \in {"lookup", "insert", "increment"} => free
            /\ (Answered(r) /\ q.resp.code \in {200, 500}) => free
            /\ (q.resp = AlreadyClaimed) =>
                  free /\ ExistingClaim(q.drop_id, q.user_id) # {}
            /\ (Answered(r) /\ q.resp = Ok200) =>
                  \E c \in ExistingClaim(q.drop_id, q.user_id) : c.claimed_at = t

\* One request made at start_at has succeeded and another made at end_at was
\* answered that the drop has expired.
C5_Witness ==
    \E r1, r2 \in ReqIds :
        /\ Answered(r1) /\ reqs[r1].resp = Ok200
        /\ \E row \in reqs[r1].drop : reqs[r1].now = row.start_at
        /\ Answered(r2) /\ reqs[r2].resp = HasExpired
        /\ \E row \in reqs[r2].drop :
              reqs[r2].now = row.end_at /\ row.status = ACTIVE

\* The user of request r holds a claim on the drop the request is for.
HoldsClaim(r) == ExistingClaim(reqs[r].drop_id, reqs[r].user_id) # {}

\* Request r has read a drop inside its claim window with no capacity left.
Exhausted(r) ==
    /\ HasRead(r)
    /\ \E row \in reqs[r].drop :
          /\ row.status \notin {ENDED, PURGED}
          /\ row.start_at <= reqs[r].now /\ reqs[r].now < row.end_at
          /\ row.claimed_count >= row.max_claims

\* C6 as stated: on a drop inside its window whose capacity is exhausted, a
\* further claim by a user who holds a claim is answered 400 "Already claimed"
\* (and a claim by any other user 400 "No more claims available").
C6_Original ==
    \A r \in ReqIds : Exhausted(r) /\ Answered(r) =>
        reqs[r].resp = (IF HoldsClaim(r) THEN AlreadyClaimed ELSE SoldOut)

\* C6 as amended: on a drop inside its window whose capacity is exhausted,
\* every further claim is answered 400 "No more claims available", that of a
\* user who holds a claim as well as that of any other user (the capacity is
\* checked before the duplicate lookup).
C6_ExhaustedIsSoldOut ==
    \A r \in ReqIds : Exhausted(r) => Answered(r) /\ reqs[r].resp = SoldOut

\* A user who holds the only claim of a drop with max_claims = 1 has claimed
\* again and was answered "No more claims available".
C6_Witness ==
    \E r \in ReqIds :
        /\ Exhausted(r) /\ Answered(r) /\ HoldsClaim(r)
        /\ reqs[r].resp = SoldOut
        /\ \E row \in reqs[r].drop : row.max_claims = 1 /\ row.claimed_count = 1

\* C7: a claim_drop attempt on an existing drop that does not succeed is
\* answered with one of the specific conflict reasons, never with a generic
\* failure, in every interleaving (failures of the store itself set aside).
C7_SpecificReason ==
    \A r \in ReqIds :
        /\ Answered(r)
        /\ reqs[r].drop # None
        /\ reqs[r].resp \notin {Ok200, StoreFault}
        => reqs[r].resp \in {HasEnded, NotStarted, HasExpired, SoldOut,
                             AlreadyClaimed}

\* C8: the status of a drop never regresses: every step leaves each drop row in
\* place with a status at or after the one it had in the order SCHEDULED,
\* ACTIVE, ENDED, PURGED.
C8_StatusMonotonic ==
    [][\A d \in DOMAIN drops :
          d \in DOMAIN drops' /\ drops'[d].status >= drops[d].status]_vars

\* batch_end_drops was asked to end a PURGED drop of its vendor and reported
\* false for it.
C8_Witness ==
    \E d \in DOMAIN drops :
        /\ drops[d].status = PURGED
        /\ bend.pc = "loop" /\ bend.vendor = drops[d].vendor_stable_id
        /\ d \in DOMAIN bend.results /\ ~bend.results[d]

\* C9: create_drop inserts the drop with claimed_count = 0 and with status
\* ACTIVE when now >= start_at, otherwise SCHEDULED; an omitted start_at is now,
\* so that drop is ACTIVE.
C9_InitialStatus ==
    [][\A d \in DOMAIN drops' \ DOMAIN drops :
          LET row == drops'[d] IN
          /\ d = creq.drop_id
          /\ row.claimed_count = 0
          /\ row.end_at = creq.end_at /\ row.max_claims = creq.max_claims
          /\ IF creq.start_at = None
             THEN row.start_at = creq.now /\ row.status = ACTIVE
             ELSE /\ row.start_at = Get(creq.start_at)
                  /\ creq.now >= row.start_at => row.status = ACTIVE
                  /\ creq.now < row.start_at => row.status = SCHEDULED]_vars

\* A drop created before the start_at given for it is in the table, SCHEDULED
\* and unclaimed.
C9_Witness ==
    \E d \in DOMAIN drops :
        /\ drops[d].status = SCHEDULED /\ drops[d].claimed_count = 0
        /\ drops[d].start_at > drops[d].updated_at

\* A drop as a response shows it, past its end_at at time t and not ENDED.
ShownStale(shown, t) ==
    shown.end_at <= t /\ shown.status \in {SCHEDULED, ACTIVE}

\* C10: no response of list_drops or get_drop to a query made at time now
\* shows a drop with end_at <= now as SCHEDULED or ACTIVE (the query has first
\* moved every such drop to ENDED).
C10_NoStaleResponse ==
    [][/\ (greq.pc = "idle" /\ greq'.pc = "done") =>
             \A shown \in greq'.drop : ~ShownStale(shown, now)
       /\ (lreq.pc = "select" /\ lreq'.pc = "done") =>
             \A d \in DOMAIN lreq'.drops : ~ShownStale(lreq'.drops[d], lreq.now)
      ]_vars

\* The step of the background job in which expire_drops runs, at time now.
ExpireRuns == job.pc = "sleep" /\ job'.pc = "purge"

\* Two tables hold the same status and ended_at for every drop.
SameEnd(a, b) ==
    \A d \in DOMAIN a : a[d].status = b[d].status /\ a[d].ended_at = b[d].ended_at

\* C11 as stated: after expire_drops has run, a second run at the same or a
\* later time leaves the status and ended_at of every drop equal to what one
\* run produced (the first run, or else a single run made at the later time).
C11_Original ==
    [][ExpireRuns =>
          \A t2 \in Times : t2 >= now =>
              LET twice == [d \in DOMAIN drops' |-> Expire(drops'[d], t2)]
                  alone == [d \in DOMAIN drops |-> Expire(drops[d], t2)]
              IN  SameEnd(twice, drops') \/ SameEnd(twice, alone)]_vars

\* C11 as amended: after expire_drops has run at t1, a second run at t2 >= t1
\* changes no drop that is ENDED or PURGED (ended_at is not overwritten), and
\* changes nothing at all when t2 = t1; the drops it changes are exactly those
\* still SCHEDULED or ACTIVE with t1 < end_at <= t2, which it ends at t2.
C11_SecondRunKeepsEnded ==
    [][ExpireRuns =>
          \A t2 \in Times : t2 >= now =>
              LET twice == [d \in DOMAIN drops' |-> Expire(drops'[d], t2)]
              IN  /\ t2 = now => twice = drops'
                  /\ \A d \in DOMAIN drops' :
                        IF /\ drops'[d].status \in {SCHEDULED, ACTIVE}
                           /\ now < drops'[d].end_at /\ drops'[d].end_at <= t2
                        THEN /\ twice[d].status = ENDED
                             /\ twice[d].ended_at = Some(t2)
                        ELSE twice[d] = drops'[d]]_vars

\* expire_drops has just ended one drop and left another, whose end_at is
\* still ahead, ACTIVE.
C11_Witness ==
    /\ job.pc = "purge"
    /\ \E d1, d2 \in DOMAIN drops :
          /\ drops[d1].status = ENDED /\ drops[d1].ended_at = Some(now)
          /\ drops[d2].status = ACTIVE /\ drops[d2].end_at > now

\* C12: expire_drops run at time now ends every SCHEDULED or ACTIVE drop with
\* end_at <= now, with ended_at = now (a drop created past its end_at too), and
\* leaves every drop with end_at > now unchanged.
C12_ExpiredAreEnded ==
    [][ExpireRuns =>
          /\ DOMAIN drops' = DOMAIN drops
          /\ \A d \in DOMAIN drops :
                /\ (drops[d].end_at <= now /\ drops[d].status \in {SCHEDULED, ACTIVE})
                      => /\ drops'[d].status = ENDED
                         /\ drops'[d].ended_at = Some(now)
                /\ drops[d].end_at > now => drops'[d] = drops[d]]_vars

\* expire_drops has just ended a drop that was created when its end_at had
\* already passed.
C12_Witness ==
    /\ job.pc = "purge"
    /\ \E d \in DOMAIN drops :
          /\ drops[d].status = ENDED /\ drops[d].ended_at = Some(now)
          /\ drops[d].start_at >= drops[d].end_at

\* The drops that are ENDED with ended_at <= t - grace.
Due(t, grace) ==
    {d \in DOMAIN drops :
        drops[d].status = ENDED /\ \E e \in drops[d].ended_at : e <= t - grace}

C16_SweepGoesOn ==
    [][(job.pc \in {"remove", "update"} /\ job'.pc = "sleep") =>
          \A d \in job.todo \ {job.drop_id} : drops'[d].status = PURGED]_vars

\* Drop `id` is in the table and belongs to `vendor`.
Owned(id, vendor) == id \in DOMAIN drops /\ drops[id].vendor_stable_id = vendor

\* C13: batch_end_drops reports true for a requested id exactly when this
\* request moved that drop of its vendor from SCHEDULED or ACTIVE to ENDED:
\* after each turn of its loop the report for the id of the turn is true iff
\* the drop was moved in this turn or in an earlier turn of the request, and
\* the drop is moved iff it belongs to the vendor and was not yet ended.
C13_ReportsMoves ==
    [][(bend.pc = "loop" /\ bend.todo # << >> /\ bend' # bend) =>
          LET id == Head(bend.todo)
              unended == Owned(id, bend.vendor)
                         /\ drops[id].status \in {SCHEDULED, ACTIVE}
              moved == unended /\ drops'[id].status = ENDED
              before == id \in DOMAIN bend.results /\ bend.results[id]
          IN  /\ moved <=> unended
              /\ bend'.results[id] = (moved \/ before)
              /\ \A d \in DOMAIN bend.results \ {id} :
                    bend'.results[d] = bend.results[d]]_vars

C20_ListedByVendorAndStatus ==
    [][lreq' # lreq =>
          /\ lreq.pc = "expire" =>
                \A d \in DOMAIN drops :
                    drops'[d].status =
                        IF /\ drops[d].end_at <= lreq.now
                           /\ drops[d].status \in {SCHEDULED, ACTIVE}
                        THEN ENDED ELSE drops[d].status
          /\ lreq.pc = "select" =>
                /\ DOMAIN lreq'.drops =
                      {d \in DOMAIN drops :
                          /\ drops[d].vendor_stable_id = lreq.vendor
                          /\ IF lreq.status = None
                             THEN drops[d].status \in {SCHEDULED, ACTIVE, ENDED}
                             ELSE drops[d].status = Get(lreq.status)}
                /\ \A d \in DOMAIN lreq'.drops :
                      /\ lreq'.drops[d].status = drops[d].status
                      /\ lreq'.drops[d].vendor_stable_id = lreq.vendor]_vars

\* list_drops with no filter has returned nothing for a vendor whose only drop
\* is PURGED.
C20_Witness ==
    /\ lreq.pc = "done" /\ lreq.status = None /\ lreq.drops = << >>
    /\ \E d \in DOMAIN drops :
          drops[d].vendor_stable_id = lreq.vendor /\ drops[d].status = PURGED

\* The download request holds a token that is the claim_id of a claim on the
\* drop it asks for.
TokenMatches ==
    \E token \in dreq.token : TokenClaim(token, dreq.drop_id) # {}

\* C17 as stated: download_drop succeeds if and only if a claim exists with
\* claim_id = token and the same drop_id, and now < end_at of the drop; the
\* status of the drop plays no part.
C17_Original ==
    [][dreq' # dreq =>
          /\ dreq.pc = "idle" => (dreq'.pc = "claim" <=> dreq'.token # None)
          /\ dreq.pc = "claim" => (dreq'.pc = "drop" <=> TokenMatches)
          /\ dreq.pc = "drop" =>
                (dreq'.pc = "read" <=> now < drops[dreq.drop_id].end_at)
          /\ dreq.pc = "read" => dreq'.resp.code = 200
          /\ (dreq'.pc = "done" /\ dreq.pc # "read") => dreq'.resp.code # 200]_vars

\* C17 as amended: download_drop succeeds if and only if a claim exists with
\* claim_id = token and the same drop_id, now < end_at of the drop, and the
\* audio file of the drop is still stored (the drop has not been purged); the
\* status of the drop plays no part, and the body is the stored audio.
C17_SucceedsWhileStored ==
    [][dreq' # dreq =>
          /\ dreq.pc = "idle" => (dreq'.pc = "claim" <=> dreq'.token # None)
          /\ dreq.pc = "claim" => (dreq'.pc = "drop" <=> TokenMatches)
          /\ dreq.pc = "drop" =>
                (dreq'.pc = "read" <=> now < drops[dreq.drop_id].end_at)
          /\ dreq.pc = "read" =>
                IF files[dreq.drop_id] \in {"absent", "empty"}
                THEN dreq'.resp.code = 500
                ELSE /\ dreq'.resp.code = 200
                     /\ dreq'.resp.body = files[dreq.drop_id]
          /\ (dreq'.pc = "done" /\ dreq.pc # "read") => dreq'.resp.code # 200]_vars

\* A claimant has downloaded a drop that was ended before its end_at.
C17_Witness ==
    /\ dreq.pc = "done" /\ dreq.resp.code = 200 /\ TokenMatches
    /\ drops[dreq.drop_id].status = ENDED
    /\ now < drops[dreq.drop_id].end_at

C19_UnknownDropIs404 ==
    dreq.pc = "done" =>
        /\ dreq.token = None => dreq.resp.code = 401
        /\ (dreq.token # None /\ dreq.drop_id \notin DOMAIN drops)
              => dreq.resp.code = 404

\* C21: the table drop_claims only grows: every step keeps every row it holds
\* as it is, so that a row is never modified and never removed, whatever
\* happens to its drop.
C21_ClaimsOnlyGrow ==
    [][drop_claims \subseteq drop_claims']_vars

\* A drop has been purged by batch_purge_drops and the claim on it is still
\* in the table.
C21_Witness ==
    /\ bpur.pc = "end"
    /\ \E d \in DOMAIN bpur.results :
          /\ bpur.results[d] /\ d \in DOMAIN drops
          /\ drops[d].status = PURGED /\ ClaimsOf(d) # {}

\* C25: in no step is a claim row inserted for a drop that is ENDED or PURGED,
\* nor is the claimed_count of such a drop changed.
C25_NoClaimAfterEnd ==
    [][\A d \in DOMAIN drops :
          drops[d].status \in {ENDED, PURGED} =>
              /\ {c \in drop_claims' : c.drop_id = d} = ClaimsOf(d)
              /\ drops'[d].claimed_count = drops[d].claimed_count]_vars

C22_RejectsAndPersistsNothing ==
    [][creq' # creq =>
          /\ creq.pc = "idle" =>
                LET invalid == \/ ~creq'.present
                               \/ creq'.vendor \notin DOMAIN vendors
                               \/ vendors[creq'.vendor] = 0
                IN  /\ invalid <=> (creq'.pc = "done" /\ creq'.resp.code = 400)
                    /\ ~invalid => creq'.pc = "mkdir"
                    /\ drops' = drops /\ files' = files
          /\ (creq.pc = "done" /\ creq.resp.code = 400) =>
                /\ drops' = drops /\ files' = files
                /\ creq.drop_id \notin DOMAIN drops
                /\ files[creq.drop_id] = "absent"]_vars

\* A form with every field but a delisted vendor was answered 400 and nothing
\* is stored for it.
C22_Witness ==
    /\ creq.pc = "done" /\ creq.resp.code = 400
    /\ creq.present /\ creq.vendor = "v0"
    /\ creq.drop_id \notin DOMAIN drops /\ files[creq.drop_id] = "absent"

\* C27: whenever no create_drop is at work, whether the attempts before
\* succeeded or failed, a blob directory exists exactly for the drops that have
\* a row.
C27_RowAndBlobsTogether ==
    creq.pc \in {"idle", "done"} =>
        \A d \in DropIds : (files[d] # "absent") <=> (d \in DOMAIN drops)

\* C23: in every state, every drop that is not PURGED has its audio file
\* stored, with the content whose hash the row records.
C23_BlobMatchesHash ==
    \A d \in DOMAIN drops :
        drops[d].status # PURGED =>
            /\ files[d] \notin {"absent", "empty"}
            /\ compute_sha256(files[d]) = drops[d].audio_sha256

\* C24: under the fair scheduling of the background job, every drop whose
\* end_at has passed is eventually ENDED or PURGED, with no client querying it.
C24_ExpiryHappens ==
    \A d \in DropIds :
        (d \in DOMAIN drops /\ drops[d].end_at <= now)
            ~> (d \in DOMAIN drops /\ drops[d].status \in {ENDED, PURGED})

\* The sweep has just ended a drop whose window had been open and has closed.
C24_Witness ==
    /\ job.pc = "purge"
    /\ \E d \in DOMAIN drops :
          /\ drops[d].status = ENDED /\ drops[d].ended_at = Some(now)
          /\ drops[d].updated_at = now
          /\ drops[d].start_at < drops[d].end_at

\* C26: the lazy update of list_drops run at time now leaves every drop that
\* was SCHEDULED with start_at <= now < end_at with the stored status ACTIVE.
C26_LazyActivation ==
    [][(lreq.pc = "expire" /\ lreq' # lreq) =>
          \A d \in DOMAIN drops :
              (/\ drops[d].status = SCHEDULED
               /\ drops[d].start_at <= lreq.now /\ lreq.now < drops[d].end_at)
                  => drops'[d].status = ACTIVE]_vars

\* C28: applied to the same table at the same time now, the lazy expiry of
\* list_drops and the update of expire_drops leave every row in the same state
\* (status, ended_at and updated_at included).
C28_SameUpdate ==
    \A d \in DOMAIN drops : LazyExpire(drops[d], now) = Expire(drops[d], now)

\* The answers by which claim_drop rejects a request for a precondition.
Rejections ==
    {NotFound, HasEnded, NotStarted, HasExpired, SoldOut, AlreadyClaimed}

\* C30: a claim_drop request that is rejected for a precondition has changed
\* neither a drop row nor the claim table: the rejections are made in the steps
\* that read the drop and look the claim up, which like the steps before them
\* write nothing; and a request made before start_at of a drop that has not
\* ended is answered 400 "Drop has not started yet".
C30_RejectionWritesNothing ==
    [][\A r \in ReqIds : reqs'[r] # reqs[r] =>
          /\ reqs[r].pc \in {"idle", "read", "lookup", "done"} =>
                drops' = drops /\ drop_claims' = drop_claims
          /\ (reqs[r].pc # "done" /\ reqs'[r].pc = "done"
              /\ reqs'[r].resp \in Rejections) =>
                reqs[r].pc \in {"read", "lookup"}
          /\ (/\ reqs[r].pc = "read" /\ reqs[r].drop_id \in DOMAIN drops
              /\ drops[reqs[r].drop_id].status \in {SCHEDULED, ACTIVE}
              /\ reqs[r].now < drops[reqs[r].drop_id].start_at) =>
                reqs'[r].pc = "done" /\ reqs'[r].resp = NotStarted]_vars

\* A claim made before start_at was answered "not started yet"; the drop is
\* SCHEDULED and unclaimed, as it was created.
C30_Witness ==
    \E r \in ReqIds : \E d \in DOMAIN drops :
        /\ Answered(r) /\ reqs[r].resp = NotStarted /\ reqs[r].drop_id = d
        /\ drops[d].status = SCHEDULED /\ drops[d].claimed_count = 0
        /\ drops[d].updated_at < drops[d].start_at
        /\ ClaimsOf(d) = {}

\* C31: a turn of batch_end_drops or of batch_purge_drops for an id that is
\* unknown or is the id of a drop of another vendor reports false for the id
\* and changes no row and no file: batch_purge_drops goes from its first UPDATE
\* to its SELECT and to the next id without removing or marking anything.
C31_OtherVendorUntouched ==
    [][/\ (bend' # bend /\ bend.pc = "loop" /\ bend.todo # << >>
           /\ ~Owned(Head(bend.todo), bend.vendor)) =>
             /\ bend'.results[Head(bend.todo)] = FALSE
             /\ drops' = drops /\ files' = files
       /\ (bpur' # bpur /\ bpur.pc # "idle" /\ bpur.todo # << >>
           /\ ~Owned(Head(bpur.todo), bpur.vendor)) =>
             /\ drops' = drops /\ files' = files
             /\ bpur.pc \in {"end", "select"}
             /\ bpur.pc = "end" => bpur'.pc = "select"
             /\ bpur.pc = "select" =>
                   bpur'.pc = "end" /\ bpur'.results[Head(bpur.todo)] = FALSE
      ]_vars

\* batch_purge_drops for vendor v1 has answered false for the drop of vendor
\* v2, which is as it was created: not ended, not purged, its audio stored.
C31_Witness ==
    /\ bpur.pc = "end" /\ bpur.todo = << >> /\ bpur.vendor = "v1"
    /\ \E d \in DOMAIN bpur.results :
          /\ ~bpur.results[d] /\ d \in DOMAIN drops
          /\ drops[d].vendor_stable_id = "v2"
          /\ drops[d].status \in {SCHEDULED, ACTIVE}
          /\ drops[d].ended_at = None /\ drops[d].purged_at = None
          /\ drops[d].updated_at < bpur.now
          /\ files[d] = "a"

\* The step in which request r of claim_drop runs its UPDATE of the counter,
\* having inserted its claim row.
Increments(r, d) ==
    /\ reqs[r].pc = "increment" /\ reqs'[r].pc = "done" /\ reqs'[r].resp = Ok200
    /\ reqs[r].drop_id = d
    /\ \E c \in drop_claims :
          /\ c.drop_id = d /\ c.user_id = reqs[r].user_id
          /\ c.claimed_at = reqs[r].now

\* C32: a drop is inserted with claimed_count 0; in every step the max_claims
\* of every drop stays as it is, and its claimed_count stays as it is or grows
\* by 1, which it does only in the step of a claim_drop request that has
\* inserted its claim row.  So no step of list_drops, get_drop, download_drop,
\* the sweeps or the batch operations changes either column.
C32_CountChangesByClaimOnly ==
    [][/\ \A d \in DOMAIN drops' \ DOMAIN drops : drops'[d].claimed_count = 0
       /\ \A d \in DOMAIN drops :
             /\ d \in DOMAIN drops'
             /\ drops'[d].max_claims = drops[d].max_claims
             /\ \/ drops'[d].claimed_count = drops[d].claimed_count
                \/ /\ drops'[d].claimed_count = drops[d].claimed_count + 1
                   /\ \E r \in ReqIds : Increments(r, d)
      ]_vars

\* A drop that was claimed once has been ended and purged, and a download of
\* it has been answered: the counter still shows the one claim.
C32_Witness ==
    /\ dreq.pc = "done" /\ TokenMatches
    /\ \E d \in DOMAIN drops :
          /\ dreq.drop_id = d /\ drops[d].status = PURGED
          /\ drops[d].claimed_count = 1 /\ drops[d].max_claims = 1
          /\ Cardinality(ClaimsOf(d)) = 1

\* A drop no claim can meet the checks of: no capacity, or an empty window.
Degenerate(row) == row.max_claims <= 0 \/ row.end_at <= row.start_at

\* C33: create_drop accepts every complete form of a live vendor, whatever its
\* end_at, start_at and max_claims, and stores these as given; and a drop stored
\* with max_claims <= 0 or with end_at <= start_at has claimed_count 0 and no
\* claim row in every state, no claim_drop request for it being answered 200.
C33_DegenerateNeverClaimed ==
    [][/\ (creq.pc = "idle" /\ creq' # creq /\ creq'.present
           /\ ValidVendor(creq'.vendor)) => creq'.pc = "mkdir"
       /\ (creq.pc = "insert" /\ creq'.pc = "done" /\ creq'.resp = Ok200) =>
             /\ creq.drop_id \in DOMAIN drops'
             /\ drops'[creq.drop_id].end_at = creq.end_at
             /\ drops'[creq.drop_id].max_claims = creq.max_claims
             /\ \A t \in creq.start_at : drops'[creq.drop_id].start_at = t
       /\ \A d \in DOMAIN drops' : Degenerate(drops'[d]) =>
             /\ drops'[d].claimed_count = 0
             /\ \A c \in drop_claims' : c.drop_id # d
             /\ \A r \in ReqIds :
                   (reqs'[r].pc = "done" /\ reqs'[r].drop_id = d)
                       => reqs'[r].resp # Ok200
      ]_vars

\* A drop stored with capacity 0 and an open window has refused a claim made
\* inside the window for want of capacity.
C33_Witness ==
    \E r \in ReqIds : \E d \in DOMAIN drops :
        /\ Answered(r) /\ reqs[r].drop_id = d /\ reqs[r].resp = SoldOut
        /\ drops[d].max_claims = 0 /\ drops[d].claimed_count = 0
        /\ drops[d].start_at <= reqs[r].now /\ reqs[r].now < drops[d].end_at
        /\ ClaimsOf(d) = {}

\* C34: under the fair scheduling of the background job and with no failure of
\* the filesystem or the store, every drop that is ENDED is eventually PURGED
\* (for the drops whose grace period ends within the clock's range, the clock
\* of the model stopping at MaxTime), and no step changes the status of a
\* drop that is PURGED.
C34_PurgeHappens ==
    /\ \A d \in DropIds :
          (/\ d \in DOMAIN drops /\ drops[d].status = ENDED
           /\ \E e \in drops[d].ended_at : e + GraceSeconds <= MaxTime)
              ~> (d \in DOMAIN drops /\ drops[d].status = PURGED)
    /\ [][\A d \in DOMAIN drops :
             drops[d].status = PURGED =>
                 d \in DOMAIN drops' /\ drops'[d].status = PURGED]_vars

\* A drop that was ended before its end_at has been purged once its grace
\* period was over, and no request is at work.
C34_Witness ==
    /\ job.pc = "sleep" /\ bpur.pc = "idle" /\ bend.pc = "idle"
    /\ \E d \in DOMAIN drops :
          /\ drops[d].status = PURGED /\ files[d] = "absent"
          /\ \E e \in drops[d].ended_at : \E t \in drops[d].purged_at :
                e < drops[d].end_at /\ e + GraceSeconds <= t

PurgingPurged ==
    /\ bpur.pc # "idle" /\ bpur.todo # << >>
    /\ Owned(Head(bpur.todo), bpur.vendor)
    /\ drops[Head(bpur.todo)].status = PURGED

\* C36: a turn of batch_purge_drops for a drop of the vendor that is already
\* PURGED goes through all its steps: the force-end changes nothing, the row
\* is selected, the directory removed, and the last UPDATE sets purged_at and
\* updated_at to the time of the request, leaving status PURGED and ended_at
\* as they were; the report for the id is true.
C36_PurgedIsPurgedAgain ==
    [][(PurgingPurged /\ bpur' # bpur) =>
          LET id == Head(bpur.todo) IN
          /\ bpur.pc = "end" => bpur'.pc = "select" /\ drops' = drops
          /\ bpur.pc = "select" => bpur'.pc = "remove" /\ drops' = drops
          /\ bpur.pc = "remove" => bpur'.pc = "update" /\ drops' = drops
          /\ bpur.pc = "update" =>
                /\ bpur'.results[id] = TRUE
                /\ drops'[id] = [drops[id] EXCEPT !.purged_at = Some(bpur.now),
                                                  !.updated_at = bpur.now]
                /\ drops'[id].status = PURGED
                /\ drops'[id].ended_at = drops[id].ended_at
      ]_vars

\* batch_purge_drops is about to mark a drop that was purged at an earlier
\* time, having found its row and removed its directory again.
C36_Witness ==
    /\ PurgingPurged /\ bpur.pc = "update"
    /\ \E t \in drops[Head(bpur.todo)].purged_at :
          t < bpur.now /\ drops[Head(bpur.todo)].updated_at = t
    /\ files[Head(bpur.todo)] = "absent"

\* C37: in every state every row of drop_claims has the drop_id of a drop in
\* the table, and its claimed_at lies in the window of that drop:
\* start_at <= claimed_at < end_at.
C37_ClaimedInsideWindow ==
    \A c \in drop_claims :
        /\ c.drop_id \in DOMAIN drops
        /\ drops[c.drop_id].start_at <= c.claimed_at
        /\ c.claimed_at < drops[c.drop_id].end_at

\* A claim row is in the table after the window of its drop has closed; its
\* claimed_at is the time of the request, when the window was open.
C37_Witness ==
    \E c \in drop_claims :
        /\ c.drop_id \in DOMAIN drops
        /\ drops[c.drop_id].end_at <= now /\ c.claimed_at < now
        /\ drops[c.drop_id].claimed_count >= 1

====
